---- MODULE Spec2Model ----
(***************************************************************************)
(* The flight-search query codec (src/src/protos/flights.rs) and the query *)
(* builder (src/src/tfs.rs).                                               *)
(*                                                                         *)
(* Bytes are naturals in 0..255, byte strings and text strings are         *)
(* sequences of bytes (a Rust String is its UTF-8 bytes).  An Option is a  *)
(* sequence of length 0 (None) or 1 (Some).  Enumerations are their        *)
(* discriminants (`x as i32`).                                             *)
(*                                                                         *)
(* The generated code calls quick_protobuf's Writer, BytesReader and       *)
(* sizeofs; each library routine is modelled at the place the generated    *)
(* code calls it, by what the routine computes.                            *)
(***************************************************************************)
EXTENDS Integers, Sequences, FiniteSets, TLC

VARIABLES
    pc,               \* position of the scenario: which operation ran last
    msg,              \* the typed message value handed to the encoder
    buf,              \* the byte buffer written by the encoder / read by the decoder
    base,             \* the buffer before an unknown record was inserted
    out,              \* the decoder's result
    kind,             \* which message type buf is decoded as
    overflow_checks,  \* build profile: TRUE = arithmetic overflow panics, FALSE = it wraps
    req,              \* the arguments of make_tfs
    ret,              \* what make_tfs returned (PyResult<Tfs>)
    py,               \* what the last method called on the Tfs object returned
    inserts           \* how many unknown records have been inserted into buf

vars == <<pc, msg, buf, base, out, kind, overflow_checks, req, ret, py, inserts>>

(***************************************************************************)
(* Bounds of the model.                                                    *)
(***************************************************************************)
MaxLegs == 3
MaxPassengers == 3
MaxInserts == 1

(***************************************************************************)
(* Enumerations: flights.rs lines 17-135.                                  *)
(***************************************************************************)
Seat == [UNKNOWN_SEAT |-> 0, ECONOMY |-> 1, PREMIUM_ECONOMY |-> 2, BUSINESS |-> 3, FIRST |-> 4]
Trip == [UNKNOWN_TRIP |-> 0, ROUND_TRIP |-> 1, ONE_WAY |-> 2, MULTI_CITY |-> 3]
Passenger == [UNKNOWN_PASSENGER |-> 0, ADULT |-> 1, CHILD |-> 2, INFANT_IN_SEAT |-> 3, INFANT_ON_LAP |-> 4]

SeatValues == 0..4
TripValues == 0..3
PassengerValues == 0..4

\* impl From<i32> for Seat / Trip / Passenger: an unknown number is the default
SeatFromI32(i) == IF i \in 0..4 THEN i ELSE Seat.UNKNOWN_SEAT
TripFromI32(i) == IF i \in 0..3 THEN i ELSE Trip.UNKNOWN_TRIP
PassengerFromI32(i) == IF i \in 0..4 THEN i ELSE Passenger.UNKNOWN_PASSENGER

\* #[derive(Default)] of the three messages
AirportDefault == [airport |-> <<>>]
FlightDataDefault == [date |-> <<>>, from_flight |-> <<>>, to_flight |-> <<>>, max_stops |-> 0]
InfoDefault == [data |-> <<>>, seat |-> Seat.UNKNOWN_SEAT, passengers |-> <<>>, trip |-> Trip.UNKNOWN_TRIP]

(***************************************************************************)
(* Tags, (field_number << 3) | wire_type, as the generated code spells     *)
(* them.                                                                   *)
(***************************************************************************)
TagAirport == 18
TagDate == 18
TagFrom == 106
TagTo == 114
TagMaxStops == 40
TagData == 26
TagSeat == 72
TagPassengers == 66
TagTrip == 152

(***************************************************************************)
(* quick_protobuf::Writer and sizeofs.                                     *)
(***************************************************************************)
RECURSIVE Varint(_)
\* Writer::write_varint(v) for 0 <= v < 2^31: little-endian base 128
Varint(v) ==
    IF v > 127 THEN <<(v % 128) + 128>> \o Varint(v \div 128) ELSE <<v>>

RECURSIVE SignExtended(_, _)
\* the ten bytes write_varint emits for (v as u64) when v: i32 is negative:
\* nine groups of seven bits, continuation set, then bit 63
SignExtended(v, n) ==
    IF n = 1 THEN <<1>> ELSE <<(v % 128) + 128>> \o SignExtended(v \div 128, n - 1)

\* Writer::write_int32(v) and Writer::write_enum(v): write_varint(v as u64)
WriteInt32(v) == IF v < 0 THEN SignExtended(v, 10) ELSE Varint(v)

\* sizeofs::sizeof_varint(v as u64) for v: i32 or a usize below 2^31
SizeofVarint(v) ==
    IF v < 0 THEN 10
    ELSE IF v < 128 THEN 1
    ELSE IF v < 16384 THEN 2
    ELSE IF v < 2097152 THEN 3
    ELSE IF v < 268435456 THEN 4
    ELSE 5

\* sizeofs::sizeof_len(len)
SizeofLen(len) == SizeofVarint(len) + len

\* Writer::write_string(s): the length, then the bytes
WriteString(s) == Varint(Len(s)) \o s

\* Writer::write_with_tag(tag, f): the tag as a varint, then what f writes
WriteWithTag(tag, payload) == Varint(tag) \o payload

\* Writer::write_message(m): m.get_size() as the length, then m.write_message
WriteMessage(size, body) == Varint(size) \o body

RECURSIVE SumSizes(_)
SumSizes(s) == IF s = <<>> THEN 0 ELSE SizeofVarint(Head(s)) + SumSizes(Tail(s))

RECURSIVE Concat(_)
Concat(ss) == IF ss = <<>> THEN <<>> ELSE Head(ss) \o Concat(Tail(ss))

\* a writer that repeats the tag before every element instead of packing them
WritePackedWithTag_Unpacked(tag, v) ==
    Concat([i \in 1..Len(v) |-> Varint(tag) \o WriteInt32(v[i])])

\* Writer::write_packed_with_tag(tag, v, write_enum, sizeof_varint)
WritePackedWithTag(tag, v) ==
    IF v = <<>> THEN <<>>
    ELSE Varint(tag) \o Varint(SumSizes(v)) \o Concat([i \in 1..Len(v) |-> WriteInt32(v[i])])

(***************************************************************************)
(* impl MessageWrite for Airport, FlightData, Info.                        *)
(***************************************************************************)
AirportGetSize(a) ==
    IF a.airport = <<>> THEN 0 ELSE 1 + SizeofLen(Len(a.airport))

AirportWriteMessage(a) ==
    IF a.airport # <<>> THEN WriteWithTag(TagAirport, WriteString(a.airport)) ELSE <<>>

FlightDataGetSize(d) ==
      (IF d.date = <<>> THEN 0 ELSE 1 + SizeofLen(Len(d.date)))
    + (IF d.from_flight = <<>> THEN 0 ELSE 1 + SizeofLen(AirportGetSize(d.from_flight[1])))
    + (IF d.to_flight = <<>> THEN 0 ELSE 1 + SizeofLen(AirportGetSize(d.to_flight[1])))
    + (IF d.max_stops = 0 THEN 0 ELSE 1 + SizeofVarint(d.max_stops))

\* a writer that treats an airport with an empty code like an absent one
FlightDataWriteMessage_EmptyAirportElided(d) ==
       (IF d.date # <<>> THEN WriteWithTag(TagDate, WriteString(d.date)) ELSE <<>>)
    \o (IF d.from_flight # <<>> /\ d.from_flight # <<AirportDefault>>
        THEN WriteWithTag(TagFrom, WriteMessage(AirportGetSize(d.from_flight[1]),
                                                AirportWriteMessage(d.from_flight[1])))
        ELSE <<>>)
    \o (IF d.to_flight # <<>> /\ d.to_flight # <<AirportDefault>>
        THEN WriteWithTag(TagTo, WriteMessage(AirportGetSize(d.to_flight[1]),
                                              AirportWriteMessage(d.to_flight[1])))
        ELSE <<>>)
    \o (IF d.max_stops # 0 THEN WriteWithTag(TagMaxStops, WriteInt32(d.max_stops)) ELSE <<>>)

FlightDataWriteMessage(d) ==
       (IF d.date # <<>> THEN WriteWithTag(TagDate, WriteString(d.date)) ELSE <<>>)
    \o (IF d.from_flight # <<>>
        THEN WriteWithTag(TagFrom, WriteMessage(AirportGetSize(d.from_flight[1]),
                                                AirportWriteMessage(d.from_flight[1])))
        ELSE <<>>)
    \o (IF d.to_flight # <<>>
        THEN WriteWithTag(TagTo, WriteMessage(AirportGetSize(d.to_flight[1]),
                                              AirportWriteMessage(d.to_flight[1])))
        ELSE <<>>)
    \o (IF d.max_stops # 0 THEN WriteWithTag(TagMaxStops, WriteInt32(d.max_stops)) ELSE <<>>)

RECURSIVE SumLegSizes(_)
SumLegSizes(ds) ==
    IF ds = <<>> THEN 0
    ELSE 1 + SizeofLen(FlightDataGetSize(Head(ds))) + SumLegSizes(Tail(ds))

\* a size that counts one byte for the tag of trip, as for every other field
InfoGetSize_OneByteTripTag(m) ==
      SumLegSizes(m.data)
    + (IF m.seat = Seat.UNKNOWN_SEAT THEN 0 ELSE 1 + SizeofVarint(m.seat))
    + (IF m.passengers = <<>> THEN 0 ELSE 1 + SizeofLen(SumSizes(m.passengers)))
    + (IF m.trip = Trip.UNKNOWN_TRIP THEN 0 ELSE 1 + SizeofVarint(m.trip))

\* a writer that writes seat whatever its value
InfoWriteMessage_SeatAlways(m) ==
       Concat([i \in 1..Len(m.data) |->
                  WriteWithTag(TagData, WriteMessage(FlightDataGetSize(m.data[i]),
                                                     FlightDataWriteMessage(m.data[i])))])
    \o WriteWithTag(TagSeat, WriteInt32(m.seat))
    \o WritePackedWithTag(TagPassengers, m.passengers)
    \o (IF m.trip # Trip.UNKNOWN_TRIP THEN WriteWithTag(TagTrip, WriteInt32(m.trip)) ELSE <<>>)

InfoGetSize(m) ==
      SumLegSizes(m.data)
    + (IF m.seat = Seat.UNKNOWN_SEAT THEN 0 ELSE 1 + SizeofVarint(m.seat))
    + (IF m.passengers = <<>> THEN 0 ELSE 1 + SizeofLen(SumSizes(m.passengers)))
    + (IF m.trip = Trip.UNKNOWN_TRIP THEN 0 ELSE 2 + SizeofVarint(m.trip))

InfoWriteMessage(m) ==
       Concat([i \in 1..Len(m.data) |->
                  WriteWithTag(TagData, WriteMessage(FlightDataGetSize(m.data[i]),
                                                     FlightDataWriteMessage(m.data[i])))])
    \o (IF m.seat # Seat.UNKNOWN_SEAT THEN WriteWithTag(TagSeat, WriteInt32(m.seat)) ELSE <<>>)
    \o WritePackedWithTag(TagPassengers, m.passengers)
    \o (IF m.trip # Trip.UNKNOWN_TRIP THEN WriteWithTag(TagTrip, WriteInt32(m.trip)) ELSE <<>>)

(***************************************************************************)
(* quick_protobuf::BytesReader.  A reader is [start, end]: offsets into    *)
(* the one byte slice every nested reader shares.  read_u8 checks start    *)
(* against the length of the slice, not against end; is_eof is start = end.*)
(* A routine returns [st, v, r]: st is "ok" (v the value, r the reader     *)
(* after it), "err" (v names the quick_protobuf::Error), "panic" (an       *)
(* arithmetic overflow under overflow checks) or "hang" (the fuel of the   *)
(* evaluation ran out: the loop does not end).                             *)
(***************************************************************************)
Huge == 1024 * 1024 * 1024    \* 2^30: stands for every value from 2^30 up

Ok(v, r) == [st |-> "ok", v |-> v, r |-> r]
Err(e) == [st |-> "err", v |-> e, r |-> [start |-> 0, end |-> 0]]
Panic == [st |-> "panic", v |-> "attempt to subtract with overflow", r |-> [start |-> 0, end |-> 0]]
Hang == [st |-> "hang", v |-> "", r |-> [start |-> 0, end |-> 0]]

\* BytesReader::from_bytes
FromBytes(bytes) == [start |-> 0, end |-> Len(bytes)]

RECURSIVE VarintDigits(_, _, _)
\* the seven-bit groups of the varint at pos, least significant first: read_u8
\* until a byte without the continuation bit, at most n bytes (Error::Varint
\* after the tenth), Error::UnexpectedEndOfBuffer past the slice
VarintDigits(bytes, pos, n) ==
    IF n = 0 THEN [st |-> "err", v |-> "Varint", digits |-> <<>>, next |-> pos]
    ELSE IF pos >= Len(bytes)
    THEN [st |-> "err", v |-> "UnexpectedEndOfBuffer", digits |-> <<>>, next |-> pos]
    ELSE LET b == bytes[pos + 1] IN
         IF b < 128 THEN [st |-> "ok", v |-> "", digits |-> <<b>>, next |-> pos + 1]
         ELSE LET rest == VarintDigits(bytes, pos + 1, n - 1) IN
              IF rest.st # "ok" THEN rest
              ELSE [rest EXCEPT !.digits = <<b % 128>> \o rest.digits]

Digit(digits, i) == IF i <= Len(digits) THEN digits[i] ELSE 0

\* bits 0..27 of a varint
Lo28(digits) ==
    Digit(digits, 1) + 128 * Digit(digits, 2) + 16384 * Digit(digits, 3)
        + 2097152 * Digit(digits, 4)

\* read_varint32's result as u32: four groups, four bits of the fifth, the rest
\* discarded.  From 2^30 up only the low three bits (a tag's wire type) are kept.
U32Of(digits) ==
    LET nib == Digit(digits, 5) % 16 IN
    IF nib < 4 THEN Lo28(digits) + nib * 268435456 ELSE Huge + (Lo28(digits) % 8)

\* read_int32: read_varint32 as i32
I32Of(digits) ==
    LET nib == Digit(digits, 5) % 16 IN
    IF nib < 8 THEN Lo28(digits) + nib * 268435456
    ELSE Lo28(digits) + (nib - 8) * 268435456 - Huge - Huge

\* read_varint64's result as u64: "small" n is n < 2^30, "near" n is 2^64 - n
\* (0 < n <= 2^28), "mid" is every other value
U64Of(digits) ==
    IF (\A i \in 6..10 : Digit(digits, i) = 0) /\ Digit(digits, 5) < 4
    THEN [cls |-> "small", n |-> Lo28(digits) + Digit(digits, 5) * 268435456]
    ELSE IF Len(digits) = 10 /\ digits[10] % 2 = 1 /\ (\A i \in 5..9 : digits[i] = 127)
    THEN [cls |-> "near", n |-> 1 + (268435455 - Lo28(digits))]
    ELSE [cls |-> "mid", n |-> 0]

\* the `?` operator: an error (a panic, an endless loop) is the result of the
\* routine, a value is handed on
Try(x, Then(_)) == IF x.st # "ok" THEN x ELSE Then(x)

\* BytesReader::read_varint32 and read_varint64 up to the conversion
ReadVarint(bytes, r) ==
    LET d == VarintDigits(bytes, r.start, 10) IN
    IF d.st # "ok" THEN Err(d.v) ELSE Ok(d.digits, [r EXCEPT !.start = d.next])

\* BytesReader::read_varint32
ReadVarint32(bytes, r) == Try(ReadVarint(bytes, r), LAMBDA d : Ok(U32Of(d.v), d.r))

\* BytesReader::next_tag
NextTag(bytes, r) == ReadVarint32(bytes, r)

\* BytesReader::read_int32
ReadInt32(bytes, r) == Try(ReadVarint(bytes, r), LAMBDA d : Ok(I32Of(d.v), d.r))

\* BytesReader::read_len_varint: end = start + len without comparing it to the
\* enclosing end; after `read`, start = end and end = the enclosing end
ReadLenVarint(bytes, r, Read(_)) ==
    Try(ReadVarint32(bytes, r), LAMBDA l :
        Try(Read([start |-> l.r.start, end |-> l.r.start + l.v]), LAMBDA m :
            Ok(m.v, [start |-> l.r.start + l.v, end |-> r.end])))

RECURSIVE Utf8Valid(_)
\* core::str::from_utf8 accepts exactly the well-formed UTF-8 byte sequences
\* (evaluated from one non-ASCII byte to the next)
Utf8Valid(s) ==
    LET high == {i \in 1..Len(s) : s[i] >= 128} IN
    IF high = {} THEN TRUE
    ELSE LET p == CHOOSE i \in high : \A j \in high : i <= j
             Cont(i, lo, hi) == i <= Len(s) /\ s[i] >= lo /\ s[i] <= hi
             Rest(n) == Utf8Valid(SubSeq(s, p + n, Len(s)))
         IN
         IF s[p] \in 194..223 THEN Cont(p + 1, 128, 191) /\ Rest(2)
         ELSE IF s[p] = 224 THEN Cont(p + 1, 160, 191) /\ Cont(p + 2, 128, 191) /\ Rest(3)
         ELSE IF s[p] \in (225..236) \cup {238, 239}
              THEN Cont(p + 1, 128, 191) /\ Cont(p + 2, 128, 191) /\ Rest(3)
         ELSE IF s[p] = 237 THEN Cont(p + 1, 128, 159) /\ Cont(p + 2, 128, 191) /\ Rest(3)
         ELSE IF s[p] = 240
              THEN Cont(p + 1, 144, 191) /\ Cont(p + 2, 128, 191) /\ Cont(p + 3, 128, 191) /\ Rest(4)
         ELSE IF s[p] \in 241..243
              THEN Cont(p + 1, 128, 191) /\ Cont(p + 2, 128, 191) /\ Cont(p + 3, 128, 191) /\ Rest(4)
         ELSE IF s[p] = 244
              THEN Cont(p + 1, 128, 143) /\ Cont(p + 2, 128, 191) /\ Cont(p + 3, 128, 191) /\ Rest(4)
         ELSE FALSE

\* BytesReader::read_string: the closure takes bytes.get(start..end), which is
\* checked against the whole slice, and core::str::from_utf8 of it
ReadString(bytes, r) ==
    ReadLenVarint(bytes, r, LAMBDA s :
        IF s.end > Len(bytes) THEN Err("UnexpectedEndOfBuffer")
        ELSE IF ~Utf8Valid(SubSeq(bytes, s.start + 1, s.end)) THEN Err("Utf8")
        ELSE Ok(SubSeq(bytes, s.start + 1, s.end), s))

\* BytesReader::read_unknown's skip of `offset` bytes:
\*     if self.end - self.start < offset { Err(Varint) } else { self.start += offset }
\* over usize.  With start > end the subtraction overflows: a panic under
\* overflow checks, 2^64 - (start - end) otherwise, and the addition wraps too.
SkipOffset(r, off, checks) ==
    IF r.end >= r.start
    THEN IF off.cls = "small" /\ off.n <= r.end - r.start
         THEN Ok(<<>>, [r EXCEPT !.start = r.start + off.n])
         ELSE Err("Varint")
    ELSE IF checks THEN Panic
    ELSE IF off.cls = "small" THEN Ok(<<>>, [r EXCEPT !.start = r.start + off.n])
    ELSE IF off.cls = "mid" THEN Ok(<<>>, [r EXCEPT !.start = Huge])
    ELSE IF off.n < r.start - r.end THEN Err("Varint")
    ELSE IF off.n <= r.start THEN Ok(<<>>, [r EXCEPT !.start = r.start - off.n])
    ELSE Ok(<<>>, [r EXCEPT !.start = Huge])

\* BytesReader::read_unknown(bytes, tag_value)
ReadUnknown(bytes, r, tag, checks) ==
    IF tag % 8 = 0 THEN Try(ReadVarint(bytes, r), LAMBDA d : Ok(<<>>, d.r))
    ELSE IF tag % 8 = 2
    THEN Try(ReadVarint(bytes, r), LAMBDA d : SkipOffset(d.r, U64Of(d.v), checks))
    ELSE IF tag % 8 = 1 THEN SkipOffset(r, [cls |-> "small", n |-> 8], checks)
    ELSE IF tag % 8 = 5 THEN SkipOffset(r, [cls |-> "small", n |-> 4], checks)
    ELSE IF tag % 8 \in {3, 4} THEN Err("Deprecated")
    ELSE Err("UnknownWireType")

\* how many turns of a from_reader loop are evaluated before it is declared
\* endless: a loop that ends reads at least one byte per turn
Fuel(bytes) == 4 * Len(bytes) + 4

(***************************************************************************)
(* impl MessageRead for Airport, FlightData, Info.  msg starts as the      *)
(* default and the loop runs while !r.is_eof(); `?` returns the error.     *)
(***************************************************************************)
RECURSIVE AirportLoop(_, _, _, _, _)
AirportLoop(bytes, r, m, checks, fuel) ==
    IF r.start = r.end THEN Ok(m, r)
    ELSE IF fuel = 0 THEN Hang
    ELSE Try(NextTag(bytes, r), LAMBDA t :
         IF t.v = TagAirport
         THEN Try(ReadString(bytes, t.r), LAMBDA s :
                  AirportLoop(bytes, s.r, [m EXCEPT !.airport = s.v], checks, fuel - 1))
         ELSE Try(ReadUnknown(bytes, t.r, t.v, checks), LAMBDA u :
                  AirportLoop(bytes, u.r, m, checks, fuel - 1)))

\* Airport::from_reader
AirportFromReader(bytes, r, checks) ==
    AirportLoop(bytes, r, AirportDefault, checks, Fuel(bytes))

\* BytesReader::read_message::<Airport>: read_len_varint around from_reader
ReadMessageAirport(bytes, r, checks) ==
    ReadLenVarint(bytes, r, LAMBDA inner : AirportFromReader(bytes, inner, checks))

RECURSIVE FlightDataLoop(_, _, _, _, _)
FlightDataLoop(bytes, r, m, checks, fuel) ==
    IF r.start = r.end THEN Ok(m, r)
    ELSE IF fuel = 0 THEN Hang
    ELSE Try(NextTag(bytes, r), LAMBDA t :
         IF t.v = TagDate
         THEN Try(ReadString(bytes, t.r), LAMBDA s :
                  FlightDataLoop(bytes, s.r, [m EXCEPT !.date = s.v], checks, fuel - 1))
         ELSE IF t.v \in {TagFrom, TagTo}
         THEN Try(ReadMessageAirport(bytes, t.r, checks), LAMBDA a :
                  FlightDataLoop(bytes, a.r,
                                 IF t.v = TagFrom THEN [m EXCEPT !.from_flight = <<a.v>>]
                                 ELSE [m EXCEPT !.to_flight = <<a.v>>],
                                 checks, fuel - 1))
         ELSE IF t.v = TagMaxStops
         THEN Try(ReadInt32(bytes, t.r), LAMBDA i :
                  FlightDataLoop(bytes, i.r, [m EXCEPT !.max_stops = i.v], checks, fuel - 1))
         ELSE Try(ReadUnknown(bytes, t.r, t.v, checks), LAMBDA u :
                  FlightDataLoop(bytes, u.r, m, checks, fuel - 1)))

\* FlightData::from_reader
FlightDataFromReader(bytes, r, checks) ==
    FlightDataLoop(bytes, r, FlightDataDefault, checks, Fuel(bytes))

\* BytesReader::read_message::<FlightData>
ReadMessageFlightData(bytes, r, checks) ==
    ReadLenVarint(bytes, r, LAMBDA inner : FlightDataFromReader(bytes, inner, checks))

RECURSIVE PackedLoop(_, _, _)
\* the closure of read_packed: while !r.is_eof() { v.push(read_enum(r, bytes)?) }
PackedLoop(bytes, r, v) ==
    IF r.start = r.end THEN Ok(v, r)
    ELSE Try(ReadInt32(bytes, r), LAMBDA i :
             PackedLoop(bytes, i.r, Append(v, PassengerFromI32(i.v))))

\* BytesReader::read_packed(bytes, read_enum)
ReadPacked(bytes, r) ==
    ReadLenVarint(bytes, r, LAMBDA inner : PackedLoop(bytes, inner, <<>>))

RECURSIVE InfoLoop(_, _, _, _, _)
InfoLoop(bytes, r, m, checks, fuel) ==
    IF r.start = r.end THEN Ok(m, r)
    ELSE IF fuel = 0 THEN Hang
    ELSE Try(NextTag(bytes, r), LAMBDA t :
         IF t.v = TagData
         THEN Try(ReadMessageFlightData(bytes, t.r, checks), LAMBDA d :
                  InfoLoop(bytes, d.r, [m EXCEPT !.data = Append(m.data, d.v)], checks, fuel - 1))
         ELSE IF t.v \in {TagSeat, TagTrip}
         THEN Try(ReadInt32(bytes, t.r), LAMBDA i :
                  InfoLoop(bytes, i.r,
                           IF t.v = TagSeat THEN [m EXCEPT !.seat = SeatFromI32(i.v)]
                           ELSE [m EXCEPT !.trip = TripFromI32(i.v)],
                           checks, fuel - 1))
         ELSE IF t.v = TagPassengers
         THEN Try(ReadPacked(bytes, t.r), LAMBDA p :
                  InfoLoop(bytes, p.r, [m EXCEPT !.passengers = p.v], checks, fuel - 1))
         ELSE Try(ReadUnknown(bytes, t.r, t.v, checks), LAMBDA u :
                  InfoLoop(bytes, u.r, m, checks, fuel - 1)))

\* Info::from_reader
InfoFromReader(bytes, r, checks) ==
    InfoLoop(bytes, r, InfoDefault, checks, Fuel(bytes))

\* what the caller of a decode gets: the value, or the failure without one
Result(x) == IF x.st = "ok" THEN [st |-> "ok", v |-> x.v] ELSE [st |-> x.st, e |-> x.v]

\* decoding a whole buffer as one message of the given type
Decode(k, bytes, checks) ==
    IF k = "Airport" THEN Result(AirportFromReader(bytes, FromBytes(bytes), checks))
    ELSE IF k = "FlightData" THEN Result(FlightDataFromReader(bytes, FromBytes(bytes), checks))
    ELSE Result(InfoFromReader(bytes, FromBytes(bytes), checks))

\* encoding one message of the given type
Encode(k, m) ==
    IF k = "Airport" THEN AirportWriteMessage(m)
    ELSE IF k = "FlightData" THEN FlightDataWriteMessage(m)
    ELSE InfoWriteMessage(m)

(***************************************************************************)
(* tfs.rs: make_tfs and the Tfs object.  A leg mapping (a HashMap from     *)
(* String to a Python string) is a function from the keys a caller may     *)
(* pass to an Option: <<>> for a key the map does not hold, <<v>> for one  *)
(* it holds.  Names are TLA+ strings, dates and airport codes byte         *)
(* sequences.  tfs.rs names the message Tfs and its fields date, from, to  *)
(* and name; flights.rs names them Info, date, from_flight, to_flight and  *)
(* airport.                                                                *)
(***************************************************************************)
AllKeys == {"date", "from", "to", "origin", "Date"}
Has(f, k) == f[k] # <<>>
KeysOf(f) == {k \in AllKeys : Has(f, k)}

\* the arms of `match key.as_str()`; every other key is the `_` arm
KnownKeys == {"date", "from", "to"}

\* the body of `for flight in flights_data` for a map with known keys only
FlightOf(f) ==
    [date |-> IF Has(f, "date") THEN f["date"][1] ELSE FlightDataDefault.date,
     from_flight |-> IF Has(f, "from") THEN <<[airport |-> f["from"][1]]>> ELSE <<>>,
     to_flight |-> IF Has(f, "to") THEN <<[airport |-> f["to"][1]]>> ELSE <<>>,
     max_stops |-> FlightDataDefault.max_stops]

\* `match passenger.extract::<String>(py)?.as_str()`; -1 stands for the `_` arm
PassengerOfName(n) ==
    CASE n = "adult" -> Passenger.ADULT
      [] n = "child" -> Passenger.CHILD
      [] n = "infant_in_seat" -> Passenger.INFANT_IN_SEAT
      [] n = "infant_on_lap" -> Passenger.INFANT_ON_LAP
      [] OTHER -> -1

\* a match that takes a capitalised name for the lower-case one
SeatOfName_Capitalised(n) ==
    CASE n \in {"economy", "Economy"} -> Seat.ECONOMY
      [] n = "premium_economy" -> Seat.PREMIUM_ECONOMY
      [] n = "business" -> Seat.BUSINESS
      [] n = "first" -> Seat.FIRST
      [] OTHER -> -1

\* `match seat_data.as_str()`
SeatOfName(n) ==
    CASE n = "economy" -> Seat.ECONOMY
      [] n = "premium_economy" -> Seat.PREMIUM_ECONOMY
      [] n = "business" -> Seat.BUSINESS
      [] n = "first" -> Seat.FIRST
      [] OTHER -> -1

\* `match trip_data.as_str()`
TripOfName(n) ==
    CASE n = "round_trip" -> Trip.ROUND_TRIP
      [] n = "one_way" -> Trip.ONE_WAY
      [] n = "multi_city" -> Trip.MULTI_CITY
      [] OTHER -> -1

\* a loop that puts each leg before the ones already built
ProcessFlights_Reversed(flights_data) ==
    [i \in 1..Len(flights_data) |-> FlightOf(flights_data[Len(flights_data) + 1 - i])]

\* the loop over flights_data: each map becomes one FlightData, pushed in turn
ProcessFlights(flights_data) ==
    [i \in 1..Len(flights_data) |-> FlightOf(flights_data[i])]

\* the loop over passengers_data: each name is pushed in turn
ProcessPassengers(passengers_data) ==
    [i \in 1..Len(passengers_data) |-> PassengerOfName(passengers_data[i])]

\* quick_protobuf::serialize_into_vec(&tfs): Writer::write_message(message) into
\* a fresh Vec, that is the varint of get_size() and then the message
SerializeIntoVec(m) == WriteMessage(InfoGetSize(m), InfoWriteMessage(m))

\* quick_protobuf::deserialize_from_slice, the reader of what serialize_into_vec
\* writes: BytesReader::from_bytes(bytes).read_message::<Info>(bytes)
DeserializeFromSlice(bytes, checks) ==
    Result(ReadLenVarint(bytes, FromBytes(bytes),
                         LAMBDA inner : InfoFromReader(bytes, inner, checks)))

PyErr(exc, name) == [st |-> "err", exc |-> exc, name |-> name]

\* make_tfs: the results it can return.  A HashMap is iterated in an order the
\* caller does not control, so of a map with several unknown keys any may be the
\* one met first.
MakeTfs(r) ==
    LET bad == {i \in 1..Len(r.flights_data) : KeysOf(r.flights_data[i]) \ KnownKeys # {}}
        badp == {i \in 1..Len(r.passengers_data) : PassengerOfName(r.passengers_data[i]) = -1}
        Min(S) == CHOOSE i \in S : \A j \in S : i <= j
    IN
    IF bad # {}
    THEN {PyErr("KeyError", k) : k \in KeysOf(r.flights_data[Min(bad)]) \ KnownKeys}
    ELSE IF badp # {}
    THEN {PyErr("ValueError", r.passengers_data[Min(badp)])}
    ELSE IF SeatOfName(r.seat_data) = -1 THEN {PyErr("ValueError", r.seat_data)}
    ELSE IF TripOfName(r.trip_data) = -1 THEN {PyErr("ValueError", r.trip_data)}
    ELSE LET tfs == [data |-> ProcessFlights(r.flights_data),
                     passengers |-> ProcessPassengers(r.passengers_data),
                     seat |-> SeatOfName(r.seat_data),
                     trip |-> TripOfName(r.trip_data)]
         IN {[st |-> "ok", data |-> tfs, bytes |-> SerializeIntoVec(tfs)]}

\* the character of a six-bit group in the standard alphabet A-Z a-z 0-9 + /
B64Char(i) ==
    IF i < 26 THEN 65 + i
    ELSE IF i < 52 THEN 97 + (i - 26)
    ELSE IF i < 62 THEN 48 + (i - 52)
    ELSE IF i = 62 THEN 43 ELSE 47

\* the i-th character of the text of b: the six bits from bit 6 * (i - 1) on,
\* bits past the last byte being 0
B64Symbol(b, i) ==
    LET Byte(j) == IF j <= Len(b) THEN b[j] ELSE 0
        g == (i - 1) \div 4
        k == (i - 1) % 4
    IN IF k = 0 THEN B64Char(Byte(3 * g + 1) \div 4)
       ELSE IF k = 1 THEN B64Char((Byte(3 * g + 1) % 4) * 16 + (Byte(3 * g + 2) \div 16))
       ELSE IF k = 2 THEN B64Char((Byte(3 * g + 2) % 16) * 4 + (Byte(3 * g + 3) \div 64))
       ELSE B64Char(Byte(3 * g + 3) % 64)

\* an encoder that leaves the padding out
Base64EncodeBytes_Unpadded(b) ==
    [i \in 1..((4 * Len(b) + 2) \div 3) |-> B64Symbol(b, i)]

\* base64_light::base64_encode_bytes: three bytes to four characters, the last
\* group padded with '=' (61)
Base64EncodeBytes(b) ==
    [i \in 1..(4 * ((Len(b) + 2) \div 3)) |->
        IF i > (4 * Len(b) + 2) \div 3 THEN 61 ELSE B64Symbol(b, i)]

(***************************************************************************)
(* The values the scenarios draw from.                                     *)
(***************************************************************************)
SeqsUpTo(S, n) == UNION {[1..k -> S] : k \in 0..n}

LongText == [i \in 1..130 |-> 65]                \* a text whose length needs two bytes
Dates == {<<>>, <<50>>, LongText}
Airports == {[airport |-> <<>>], [airport |-> <<74>>], [airport |-> <<76, 65>>]}
Stops == {0, 1, 300, -1}

Legs ==
    [date : Dates,
     from_flight : {<<>>} \cup {<<a>> : a \in Airports},
     to_flight : {<<>>, <<[airport |-> <<76, 65>>]>>},
     max_stops : Stops]

\* the legs a whole query is assembled from
QueryLegs ==
    { FlightDataDefault,
      [date |-> <<50>>, from_flight |-> <<[airport |-> <<74>>]>>,
       to_flight |-> <<[airport |-> <<76, 65>>]>>, max_stops |-> -1],
      [date |-> LongText, from_flight |-> <<[airport |-> <<>>]>>,
       to_flight |-> <<>>, max_stops |-> 300],
      [date |-> <<50>>, from_flight |-> <<>>, to_flight |-> <<>>, max_stops |-> 0],
      [date |-> <<>>, from_flight |-> <<>>,
       to_flight |-> <<[airport |-> <<76, 65>>]>>, max_stops |-> 1] }

\* queries of up to MaxLegs legs with at most one passenger, and queries of up
\* to MaxPassengers passengers with at most one leg
Infos ==
    [data : SeqsUpTo(QueryLegs, MaxLegs), seat : SeatValues,
     passengers : SeqsUpTo(PassengerValues, 1), trip : TripValues]
    \cup
    [data : SeqsUpTo(QueryLegs, 1), seat : SeatValues,
     passengers : SeqsUpTo(PassengerValues, MaxPassengers), trip : TripValues]

Kinds == {"Airport", "FlightData", "Info"}
ValuesOf(k) == IF k = "Airport" THEN Airports ELSE IF k = "FlightData" THEN Legs ELSE Infos

Some(x) == <<x>>
MapOf(date, from, to, origin, Date) ==
    [k \in AllKeys |->
        CASE k = "date" -> date [] k = "from" -> from [] k = "to" -> to
          [] k = "origin" -> origin [] OTHER -> Date]

\* the leg mappings a caller passes: {}, {date, from, to}, {date},
\* {from: "", to}, {date, origin} and {origin, Date}
LegMaps ==
    { MapOf(<<>>, <<>>, <<>>, <<>>, <<>>),
      MapOf(Some(<<50, 48>>), Some(<<74>>), Some(<<76, 65>>), <<>>, <<>>),
      MapOf(Some(<<50>>), <<>>, <<>>, <<>>, <<>>),
      MapOf(<<>>, Some(<<>>), Some(<<74>>), <<>>, <<>>),
      MapOf(Some(<<50>>), <<>>, <<>>, Some(<<74>>), <<>>),
      MapOf(<<>>, <<>>, <<>>, Some(<<74>>), Some(<<50>>)) }

SeatNames == {"economy", "premium_economy", "business", "first", "Economy"}
PassengerNames == {"adult", "child", "infant_in_seat", "infant_on_lap", "senior"}
TripNames == {"round_trip", "one_way", "multi_city", "One_Way"}

\* calls with up to MaxLegs leg mappings and at most one passenger name, and
\* calls with up to MaxPassengers passenger names and at most one leg mapping
Requests ==
    [flights_data : SeqsUpTo(LegMaps, MaxLegs), seat_data : SeatNames,
     passengers_data : SeqsUpTo(PassengerNames, 1), trip_data : TripNames]
    \cup
    [flights_data : SeqsUpTo(LegMaps, 1), seat_data : SeatNames,
     passengers_data : SeqsUpTo(PassengerNames, MaxPassengers), trip_data : TripNames]

Nil == [st |-> "none"]
NoRequest == [flights_data |-> <<>>, seat_data |-> <<>>, passengers_data |-> <<>>, trip_data |-> <<>>]

(***************************************************************************)
(* The records of a well-formed buffer, by the wire grammar: a tag, then a *)
(* varint (wire type 0) or a length and that many bytes (wire type 2).     *)
(* A record is [tag, len, payload, raw, stop]; len is the declared length  *)
(* of a length-delimited record, payload the bytes after the tag (and      *)
(* length), stop the offset at which the record ends.                      *)
(***************************************************************************)
RECURSIVE Records(_, _)
Records(bytes, pos) ==
    IF pos >= Len(bytes) THEN <<>>
    ELSE LET t == VarintDigits(bytes, pos, 10)
             tag == U32Of(t.digits)
             x == VarintDigits(bytes, t.next, 10)
             past == x.next + U32Of(x.digits)
             stop == IF tag % 8 # 2 THEN x.next
                     ELSE IF past > Len(bytes) THEN Len(bytes) ELSE past
             from == IF tag % 8 = 2 THEN x.next ELSE t.next
         IN << [tag |-> tag,
                len |-> IF tag % 8 = 2 THEN U32Of(x.digits) ELSE 0,
                payload |-> SubSeq(bytes, from + 1, stop),
                raw |-> SubSeq(bytes, pos + 1, stop),
                stop |-> stop] >> \o Records(bytes, stop)

CountIn(rs, tag) == Cardinality({i \in DOMAIN rs : rs[i].tag = tag})
SelectIn(rs, tag) == SelectSeq(rs, LAMBDA rec : rec.tag = tag)
Select(tag, bytes) == SelectIn(Records(bytes, 0), tag)

(***************************************************************************)
(* Unknown records: well-formed records of a producer that knows more      *)
(* fields, as [field, bytes].                                              *)
(***************************************************************************)
ForeignRecords ==
    { [field |-> 1, bytes |-> <<8, 5>>],
      [field |-> 1, bytes |-> <<8, 172, 2>>],
      [field |-> 1, bytes |-> <<8>> \o WriteInt32(-1)],
      [field |-> 1, bytes |-> <<10, 0>>],
      [field |-> 1, bytes |-> <<10, 2, 18, 65>>],
      [field |-> 2, bytes |-> <<18, 1, 66>>],
      [field |-> 3, bytes |-> <<26, 1, 65>>],
      [field |-> 9, bytes |-> <<72, 3>>],
      [field |-> 20, bytes |-> <<162, 1, 1, 65>>] }

\* the field numbers of a message's schema: the tags of its from_reader, >> 3
SchemaFields(k) ==
    IF k = "Airport" THEN {TagAirport \div 8}
    ELSE IF k = "FlightData" THEN {TagDate \div 8, TagFrom \div 8, TagTo \div 8, TagMaxStops \div 8}
    ELSE {TagData \div 8, TagSeat \div 8, TagPassengers \div 8, TagTrip \div 8}

UnknownRecords(k) == {u.bytes : u \in {x \in ForeignRecords : x.field \notin SchemaFields(k)}}

\* the offsets at which a record of the buffer starts or the buffer ends
Boundaries(bytes) ==
    LET rs == Records(bytes, 0) IN {0} \cup {rs[i].stop : i \in DOMAIN rs}

InsertAt(bytes, p, u) == SubSeq(bytes, 1, p) \o u \o SubSeq(bytes, p + 1, Len(bytes))

\* the values whose encodings records are inserted into
SmallLegs ==
    [date : {<<>>, <<50>>},
     from_flight : {<<>>, <<[airport |-> <<>>]>>, <<[airport |-> <<74>>]>>},
     to_flight : {<<>>, <<[airport |-> <<76, 65>>]>>},
     max_stops : {0, -1}]
SmallInfos ==
    [data : SeqsUpTo({FlightDataDefault,
                      [date |-> <<50>>, from_flight |-> <<[airport |-> <<74>>]>>,
                       to_flight |-> <<>>, max_stops |-> 1]}, 2),
     seat : {Seat.UNKNOWN_SEAT, Seat.BUSINESS},
     passengers : {<<>>, <<Passenger.ADULT, Passenger.CHILD>>},
     trip : {Trip.UNKNOWN_TRIP, Trip.ONE_WAY}]
SmallValuesOf(k) ==
    IF k = "Airport" THEN Airports ELSE IF k = "FlightData" THEN SmallLegs ELSE SmallInfos

(***************************************************************************)
(* Hand-crafted buffers.  In each of the first two the airport message     *)
(* inside origin (field 13) is 18 01: a code of declared length 1 with no  *)
(* byte left in the airport message.  The byte after it, 10, is taken for  *)
(* the code; the same 10 is then the tag of an unknown length-delimited    *)
(* field, whose length is 2^64 - 12 in the first buffer and 0 in the       *)
(* second.                                                                 *)
(***************************************************************************)
NearMaxLength == <<244, 255, 255, 255, 255, 255, 255, 255, 255, 1>>
CraftedBuffers(k) ==
    IF k = "FlightData"
    THEN { <<106, 2, 18, 1, 10, 10>> \o NearMaxLength,
           <<106, 2, 18, 1, 10, 10, 0>>,
           <<8, 5, 18, 1, 50>>,
           <<18, 5, 50>>,
           <<18, 1, 200>> }
    ELSE IF k = "Info"
    THEN { <<26, 4, 106, 2, 18, 1, 10, 10>> \o NearMaxLength,
           <<26, 3, 18, 4, 50>>,
           <<66, 2, 1, 130>>,
           <<72, 130>> }
    ELSE { <<18, 2, 74>>, <<10, 3, 1>>, <<18, 1, 74, 8, 128>> }

(***************************************************************************)
(* Spec: a message value is written with write_message and the bytes are   *)
(* read back with from_reader.                                             *)
(***************************************************************************)
Init ==
    /\ pc = "value"
    /\ kind \in Kinds
    /\ msg \in ValuesOf(kind)
    /\ buf = <<>>
    /\ base = <<>>
    /\ out = Nil
    /\ overflow_checks = FALSE
    /\ req = NoRequest
    /\ ret = Nil
    /\ py = <<>>
    /\ inserts = 0

\* MessageWrite::write_message into an empty Vec
Serialize ==
    /\ pc = "value"
    /\ buf' = Encode(kind, msg)
    /\ pc' = "written"
    /\ UNCHANGED <<msg, base, out, kind, overflow_checks, req, ret, py, inserts>>

\* MessageRead::from_reader over BytesReader::from_bytes(buf), in either build profile
Deserialize ==
    /\ pc \in {"written", "inserted", "received"}
    /\ \E checks \in BOOLEAN :
          /\ overflow_checks' = checks
          /\ out' = Decode(kind, buf, checks)
    /\ pc' = "read"
    /\ UNCHANGED <<msg, buf, base, kind, req, ret, py, inserts>>

Next == Serialize \/ Deserialize

Spec == Init /\ [][Next]_vars

\* C1: decoding the bytes produced by encoding a value succeeds and yields that
\* value, for every SearchQuery (and every leg and airport) of the bounded sets
C1_RoundTrip ==
    pc = "read" => (out.st = "ok" /\ out.v = msg)

\* a query with MaxLegs legs, the UNKNOWN seat, trip and passenger, a negative
\* max_stops and an origin present with an empty code has been encoded and decoded
C1_Witness ==
    /\ pc = "read" /\ kind = "Info" /\ out.st = "ok"
    /\ Len(msg.data) = MaxLegs
    /\ msg.seat = Seat.UNKNOWN_SEAT /\ msg.trip = Trip.UNKNOWN_TRIP
    /\ \E i \in DOMAIN msg.passengers : msg.passengers[i] = Passenger.UNKNOWN_PASSENGER
    /\ \E i \in DOMAIN msg.data : msg.data[i].max_stops < 0
    /\ \E i \in DOMAIN msg.data : msg.data[i].from_flight = <<[airport |-> <<>>]>>

\* 1 for a field that is written, 0 for one that is left out
B(cond) == IF cond THEN 1 ELSE 0

AirportElision(a, bytes) ==
    LET rs == Records(bytes, 0) IN
    /\ CountIn(rs, TagAirport) = B(a.airport # <<>>)
    /\ Len(rs) = B(a.airport # <<>>)

LegElision(d, bytes) ==
    LET rs == Records(bytes, 0) IN
    /\ CountIn(rs, TagDate) = B(d.date # <<>>)
    /\ CountIn(rs, TagFrom) = B(d.from_flight # <<>>)
    /\ CountIn(rs, TagTo) = B(d.to_flight # <<>>)
    /\ CountIn(rs, TagMaxStops) = B(d.max_stops # 0)
    /\ Len(rs) =
           B(d.date # <<>>) + B(d.from_flight # <<>>) + B(d.to_flight # <<>>) + B(d.max_stops # 0)
    /\ d.from_flight # <<>> => AirportElision(d.from_flight[1], SelectIn(rs, TagFrom)[1].payload)
    /\ d.to_flight # <<>> => AirportElision(d.to_flight[1], SelectIn(rs, TagTo)[1].payload)

InfoElision(m, bytes) ==
    LET rs == Records(bytes, 0)
        legs == SelectIn(rs, TagData)
    IN
    /\ Len(legs) = Len(m.data)
    /\ CountIn(rs, TagSeat) = B(m.seat # Seat.UNKNOWN_SEAT)
    /\ CountIn(rs, TagPassengers) = B(m.passengers # <<>>)
    /\ CountIn(rs, TagTrip) = B(m.trip # Trip.UNKNOWN_TRIP)
    /\ Len(rs) =
           Len(m.data) + B(m.seat # Seat.UNKNOWN_SEAT) + B(m.passengers # <<>>)
               + B(m.trip # Trip.UNKNOWN_TRIP)
    /\ \A i \in DOMAIN m.data : LegElision(m.data[i], legs[i].payload)
    /\ ( m.seat = Seat.UNKNOWN_SEAT /\ m.trip = Trip.UNKNOWN_TRIP /\ m.passengers = <<>> ) =>
           bytes = Concat([i \in 1..Len(legs) |-> legs[i].raw])

\* C4: the encoder emits a record for a field exactly when the field is not at
\* its elision default; a query with default seat and trip and no passengers has
\* no byte for those fields, and making one of them non-default makes the
\* encoding strictly longer
C4_DefaultElision ==
    pc = "written" =>
      /\ kind = "Airport" => AirportElision(msg, buf)
      /\ kind = "FlightData" => LegElision(msg, buf)
      /\ kind = "Info" =>
           /\ InfoElision(msg, buf)
           /\ ( msg.seat = Seat.UNKNOWN_SEAT /\ msg.trip = Trip.UNKNOWN_TRIP /\ msg.passengers = <<>> ) =>
                /\ \A x \in SeatValues \ {Seat.UNKNOWN_SEAT} :
                       Len(InfoWriteMessage([msg EXCEPT !.seat = x])) > Len(buf)
                /\ \A x \in TripValues \ {Trip.UNKNOWN_TRIP} :
                       Len(InfoWriteMessage([msg EXCEPT !.trip = x])) > Len(buf)
                /\ \A x \in PassengerValues :
                       Len(InfoWriteMessage([msg EXCEPT !.passengers = <<x>>])) > Len(buf)

\* a query with legs and with seat, trip and passengers all at their defaults has
\* been encoded, a leg of it having an empty date and an absent destination
C4_Witness ==
    /\ pc = "written" /\ kind = "Info"
    /\ msg.seat = Seat.UNKNOWN_SEAT /\ msg.trip = Trip.UNKNOWN_TRIP /\ msg.passengers = <<>>
    /\ Len(msg.data) = MaxLegs
    /\ \E i \in DOMAIN msg.data : msg.data[i].date = <<>> /\ msg.data[i].to_flight = <<>>
    /\ \E i \in DOMAIN msg.data : msg.data[i].max_stops # 0
    /\ Len(Records(buf, 0)) = MaxLegs

\* C5: a non-empty passenger list is written as exactly one record of field 8,
\* length-delimited (first byte 66), whose declared length is the number of
\* passengers and whose payload is the passengers' values, one byte each, in
\* list order; no record per passenger is written
C5_PackedPassengers ==
    (pc = "written" /\ kind = "Info" /\ msg.passengers # <<>>) =>
      LET rs == Records(buf, 0)
          packed == SelectIn(rs, TagPassengers)
      IN
      /\ Len(packed) = 1
      /\ packed[1].raw[1] = 66
      /\ packed[1].len = Len(msg.passengers)
      /\ packed[1].payload = msg.passengers
      /\ CountIn(rs, TagPassengers - 2) = 0
      /\ Len(rs) =
             Len(msg.data) + B(msg.seat # Seat.UNKNOWN_SEAT) + 1 + B(msg.trip # Trip.UNKNOWN_TRIP)

\* [adult, child, adult] has been encoded with the payload 01 02 01
C5_Witness ==
    /\ pc = "written" /\ kind = "Info"
    /\ msg.passengers = <<Passenger.ADULT, Passenger.CHILD, Passenger.ADULT>>
    /\ Select(TagPassengers, buf)[1].raw = <<66, 3, 1, 2, 1>>

GetSize(k, m) ==
    IF k = "Airport" THEN AirportGetSize(m)
    ELSE IF k = "FlightData" THEN FlightDataGetSize(m)
    ELSE InfoGetSize(m)

AirportSized(a, rec) ==
    /\ rec.len = AirportGetSize(a)
    /\ rec.payload = AirportWriteMessage(a)

LegSized(d, bytes) ==
    LET rs == Records(bytes, 0) IN
    /\ FlightDataGetSize(d) = Len(bytes)
    /\ bytes = FlightDataWriteMessage(d)
    /\ d.from_flight # <<>> => AirportSized(d.from_flight[1], SelectIn(rs, TagFrom)[1])
    /\ d.to_flight # <<>> => AirportSized(d.to_flight[1], SelectIn(rs, TagTo)[1])

\* C10: get_size() is the number of bytes write_message() emits, for every
\* Airport, FlightData and Info, so the length written in front of every nested
\* leg, airport and packed passenger payload is the length of that payload
C10_SizeIsLength ==
    pc = "written" =>
      /\ GetSize(kind, msg) = Len(buf)
      /\ kind = "FlightData" => LegSized(msg, buf)
      /\ kind = "Info" =>
           LET rs == Records(buf, 0)
               legs == SelectIn(rs, TagData)
               packed == SelectIn(rs, TagPassengers)
           IN
           /\ Len(legs) = Len(msg.data)
           /\ \A i \in DOMAIN msg.data :
                 /\ legs[i].len = FlightDataGetSize(msg.data[i])
                 /\ LegSized(msg.data[i], legs[i].payload)
           /\ msg.passengers # <<>> => packed[1].len = Len(packed[1].payload)
           /\ buf = Concat([i \in 1..Len(rs) |-> rs[i].raw])

\* a query with a trip (two-byte tag), a negative max_stops (ten-byte varint) and
\* a leg of more than 127 bytes (two-byte length) has been encoded
C10_Witness ==
    /\ pc = "written" /\ kind = "Info"
    /\ msg.trip # Trip.UNKNOWN_TRIP
    /\ \E i \in DOMAIN msg.data : msg.data[i].max_stops < 0
    /\ \E i \in DOMAIN msg.data : FlightDataGetSize(msg.data[i]) > 127
    /\ msg.passengers # <<>>
    /\ Len(buf) = InfoGetSize(msg)

(***************************************************************************)
(* SpecBuild: a caller calls make_tfs and then bytes() or base64() on the  *)
(* object it got.                                                          *)
(***************************************************************************)
InitBuild ==
    /\ pc = "request"
    /\ req \in Requests
    /\ ret = Nil
    /\ py = <<>>
    /\ kind = "Info"
    /\ msg = InfoDefault
    /\ buf = <<>>
    /\ base = <<>>
    /\ out = Nil
    /\ overflow_checks = FALSE
    /\ inserts = 0

\* make_tfs(py, flights_data, seat_data, passengers_data, trip_data)
CallMakeTfs ==
    /\ pc = "request"
    /\ ret' \in MakeTfs(req)
    /\ pc' = "made"
    /\ UNCHANGED <<msg, buf, base, out, kind, overflow_checks, req, py, inserts>>

\* Tfs::bytes
CallBytes ==
    /\ pc = "made"
    /\ ret.st = "ok"
    /\ py' = ret.bytes
    /\ pc' = "bytes"
    /\ UNCHANGED <<msg, buf, base, out, kind, overflow_checks, req, ret, inserts>>

\* Tfs::base64
CallBase64 ==
    /\ pc = "made"
    /\ ret.st = "ok"
    /\ py' = Base64EncodeBytes(ret.bytes)
    /\ pc' = "base64"
    /\ UNCHANGED <<msg, buf, base, out, kind, overflow_checks, req, ret, inserts>>

NextBuild == CallMakeTfs \/ CallBytes \/ CallBase64

SpecBuild == InitBuild /\ [][NextBuild]_vars

\* C2: make_tfs returns a Tfs exactly when every key of every leg mapping is
\* date, from or to and the seat, passenger and trip names are exactly the
\* lower-case names; otherwise it returns an error and nothing else: a KeyError
\* naming an unknown key when there is one, else a ValueError naming an
\* unknown seat, passenger or trip name
C2_BuildAllOrNothing ==
    pc # "request" =>
      LET badKeys == UNION {KeysOf(req.flights_data[i]) \ {"date", "from", "to"} :
                               i \in DOMAIN req.flights_data}
          badNames ==
              ({req.seat_data} \ {"economy", "premium_economy", "business", "first"})
              \cup ({req.passengers_data[i] : i \in DOMAIN req.passengers_data}
                       \ {"adult", "child", "infant_in_seat", "infant_on_lap"})
              \cup ({req.trip_data} \ {"round_trip", "one_way", "multi_city"})
      IN
      /\ ret.st = "ok" <=> (badKeys = {} /\ badNames = {})
      /\ ret.st = "ok" => DOMAIN ret = {"st", "data", "bytes"}
      /\ ret.st # "ok" =>
           /\ ret.st = "err"
           /\ DOMAIN ret = {"st", "exc", "name"}
           /\ IF badKeys # {}
              THEN ret.exc = "KeyError" /\ ret.name \in badKeys
              ELSE ret.exc = "ValueError" /\ ret.name \in badNames

\* make_tfs([{date, from, to}], "Economy", ["adult"], "one_way") has failed with
\* a ValueError naming "Economy"
C2_Witness ==
    /\ pc = "made"
    /\ Len(req.flights_data) = 1 /\ KeysOf(req.flights_data[1]) = {"date", "from", "to"}
    /\ req.seat_data = "Economy" /\ req.passengers_data = <<"adult">> /\ req.trip_data = "one_way"
    /\ ret.st = "err" /\ ret.exc = "ValueError" /\ ret.name = "Economy"

\* C3: bytes() is the raw wire-format encoding of the query the object owns: it
\* starts with the tag of the first record, nothing precedes the first record or
\* follows the last, and decoding it as a SearchQuery yields the stored value
C3_BytesAreRawEncoding ==
    pc = "bytes" =>
      /\ py = InfoWriteMessage(ret.data)
      /\ Decode("Info", py, FALSE) = [st |-> "ok", v |-> ret.data]

\* the leg and the passenger a caller's i-th mapping and i-th name stand for
ExpectedLeg(f) ==
    [date |-> IF f["date"] = <<>> THEN <<>> ELSE f["date"][1],
     from_flight |-> IF f["from"] = <<>> THEN <<>> ELSE <<[airport |-> f["from"][1]]>>,
     to_flight |-> IF f["to"] = <<>> THEN <<>> ELSE <<[airport |-> f["to"][1]]>>,
     max_stops |-> 0]
ExpectedPassenger(n) ==
    IF n = "adult" THEN 1 ELSE IF n = "child" THEN 2 ELSE IF n = "infant_in_seat" THEN 3 ELSE 4

B64Value(c) ==
    IF c \in 65..90 THEN c - 65
    ELSE IF c \in 97..122 THEN c - 97 + 26
    ELSE IF c \in 48..57 THEN c - 48 + 52
    ELSE IF c = 43 THEN 62
    ELSE IF c = 47 THEN 63
    ELSE -1

\* standard base64 decoding (RFC 4648, padded): <<>> and ok = FALSE for a text
\* that is not standard padded base64
StandardBase64Decode(t) ==
    LET n == Len(t)
        pad == IF n >= 2 /\ t[n] = 61 /\ t[n - 1] = 61 THEN 2
               ELSE IF n >= 1 /\ t[n] = 61 THEN 1 ELSE 0
        V(i) == IF t[i] = 61 THEN 0 ELSE B64Value(t[i])
        wellformed ==
            /\ n % 4 = 0
            /\ \A i \in 1..(n - pad) : B64Value(t[i]) >= 0
            /\ pad = 1 => V(n - 1) % 4 = 0
            /\ pad = 2 => V(n - 2) % 16 = 0
    IN IF ~wellformed THEN [ok |-> FALSE, bytes |-> <<>>]
       ELSE [ok |-> TRUE,
             bytes |-> [j \in 1..(3 * (n \div 4) - pad) |->
                          LET g == 4 * ((j - 1) \div 3)
                              k == (j - 1) % 3
                          IN IF k = 0 THEN V(g + 1) * 4 + (V(g + 2) \div 16)
                             ELSE IF k = 1 THEN (V(g + 2) % 16) * 16 + (V(g + 3) \div 4)
                             ELSE (V(g + 3) % 4) * 64 + V(g + 4)]]

\* C9: base64() is standard-alphabet, padded base64 of bytes(): its standard
\* decoding is exactly the bytes, whatever their length modulo 3
C9_Base64RoundTrip ==
    pc = "base64" =>
      /\ Len(py) = 4 * ((Len(ret.bytes) + 2) \div 3)
      /\ StandardBase64Decode(py) = [ok |-> TRUE, bytes |-> ret.bytes]

\* a byte buffer of length 1 modulo 3 has been rendered, ending in "=="
C9_Witness ==
    /\ pc = "base64"
    /\ Len(ret.bytes) % 3 = 1
    /\ py[Len(py)] = 61 /\ py[Len(py) - 1] = 61
    /\ StandardBase64Decode(py).bytes = ret.bytes

(***************************************************************************)
(* SpecTolerance: the decoder is handed an encoded message or a            *)
(* hand-crafted buffer, into which a producer that knows more fields has   *)
(* inserted records of them.                                               *)
(***************************************************************************)
InitSmall ==
    /\ pc = "value"
    /\ kind \in Kinds
    /\ msg \in SmallValuesOf(kind)
    /\ buf = <<>>
    /\ base = <<>>
    /\ out = Nil
    /\ overflow_checks = FALSE
    /\ req = NoRequest
    /\ ret = Nil
    /\ py = <<>>
    /\ inserts = 0

\* a hand-crafted buffer arrives
Receive ==
    /\ pc = "value"
    /\ buf' \in CraftedBuffers(kind)
    /\ pc' = "received"
    /\ UNCHANGED <<msg, base, out, kind, overflow_checks, req, ret, py, inserts>>

\* a record of an unknown field is inserted at a record boundary of a buffer
\* that decodes
InsertUnknown ==
    /\ pc \in {"written", "received", "inserted"}
    /\ inserts < MaxInserts
    /\ Decode(kind, buf, FALSE).st = "ok"
    /\ \E p \in Boundaries(buf), u \in UnknownRecords(kind) :
          buf' = InsertAt(buf, p, u)
    /\ base' = buf
    /\ inserts' = inserts + 1
    /\ pc' = "inserted"
    /\ UNCHANGED <<msg, out, kind, overflow_checks, req, ret, py>>

NextTolerance == Serialize \/ Receive \/ InsertUnknown \/ Deserialize

SpecTolerance == InitSmall /\ [][NextTolerance]_vars

\* C6: a well-formed record of a field number outside the message's schema,
\* inserted at a record boundary of a decodable buffer, leaves the decoding
\* successful and its value the one of the buffer without the record
C6_UnknownFieldTolerance ==
    (pc = "read" /\ inserts > 0) =>
      LET before == Decode(kind, base, overflow_checks) IN
      before.st = "ok" => out = before

(***************************************************************************)
(* SpecMalformed: the decoder is handed an encoded message cut short, or a *)
(* hand-crafted buffer.                                                    *)
(***************************************************************************)
\* an encoded message arrives without its last bytes
Truncate ==
    /\ pc = "written"
    /\ \E n \in 0..(Len(buf) - 1) : buf' = SubSeq(buf, 1, n)
    /\ pc' = "received"
    /\ UNCHANGED <<msg, base, out, kind, overflow_checks, req, ret, py, inserts>>

NextMalformed == Serialize \/ Truncate \/ Receive \/ Deserialize

SpecMalformed == InitSmall /\ [][NextMalformed]_vars

RECURSIVE Overruns(_, _, _)
\* by the wire grammar alone: walking the records of `bytes` as a message of type
\* k from pos, a varint runs past the end of the buffer, or a length-delimited
\* record declares more bytes than the buffer has left; the buffer of a nested
\* airport, leg or passenger list is its payload
Overruns(k, bytes, pos) ==
    IF pos >= Len(bytes) THEN FALSE
    ELSE LET t == VarintDigits(bytes, pos, 10)
             tag == U32Of(t.digits)
             x == VarintDigits(bytes, t.next, 10)
             len == U64Of(x.digits)
             payload == SubSeq(bytes, x.next + 1, x.next + len.n)
         IN
         IF t.st # "ok" THEN t.v = "UnexpectedEndOfBuffer"
         ELSE IF tag % 8 \notin {0, 2} THEN FALSE
         ELSE IF x.st # "ok" THEN x.v = "UnexpectedEndOfBuffer"
         ELSE IF tag % 8 = 0 THEN Overruns(k, bytes, x.next)
         ELSE IF len.cls # "small" \/ x.next + len.n > Len(bytes) THEN TRUE
         ELSE \/ k = "FlightData" /\ tag \in {TagFrom, TagTo} /\ Overruns("Airport", payload, 0)
              \/ k = "Info" /\ tag = TagData /\ Overruns("FlightData", payload, 0)
              \/ k = "Info" /\ tag = TagPassengers /\ payload # <<>> /\ payload[Len(payload)] >= 128
              \/ Overruns(k, bytes, x.next + len.n)

\* C7: decoding any buffer returns a complete value or fails with an error, and
\* it fails whenever a length-delimited record declares more bytes than are left
\* in the enclosing buffer or a varint has its continuation bit set on the last
\* available byte, at any depth of nesting
C7_MalformedInputFails ==
    pc = "read" =>
      /\ out.st \in {"ok", "err"}
      /\ Overruns(kind, buf, 0) => out.st = "err"

(***************************************************************************)
(* What does hold of the decoder where C6 and C7 fail.                     *)
(***************************************************************************)
\* under SpecTolerance: inserting an unknown record into a decodable buffer in
\* which no record overruns its enclosing buffer leaves the decoded value as it
\* was, and with overflow checks every decodable buffer is such a buffer
ToleranceWithoutOverrun ==
    (pc = "read" /\ inserts > 0 /\ (overflow_checks \/ ~Overruns(kind, base, 0))) =>
      LET before == Decode(kind, base, overflow_checks) IN
      before.st = "ok" => out = before

\* under SpecMalformed: decoding an encoded message, whole or cut short, gives
\* a value or an error, and an error whenever the cut leaves a varint or a
\* length-delimited record unfinished, whatever the build
CutBuffersFailWhereOverrun ==
    (pc = "read" /\ buf \notin CraftedBuffers(kind)) =>
      /\ out.st \in {"ok", "err"}
      /\ Overruns(kind, buf, 0) => out.st = "err"

====
